---- MODULE Spec2Model ----
(***************************************************************************)
(* A model of pxrs, a reader of Paradox table files: the value codec       *)
(* (src/src/convert.rs), the two header decoders (src/src/parse.rs and     *)
(* src/src/types.rs), the block reader (src/src/parse.rs) and the memo     *)
(* blob resolver (src/src/convert.rs).                                     *)
(*                                                                         *)
(* Conventions.  A byte is a number in 0..255.  A machine integer of n     *)
(* bytes is the sequence of its n bytes, least significant first (what     *)
(* to_le_bytes returns), so that 32- and 64-bit values never leave the     *)
(* range of the checker's integers.  The target is little-endian: a        *)
(* ptr::read of a buffer as an integer gives the integer whose             *)
(* least-significant-first bytes are the buffer.  Sequences are 1-based:   *)
(* the code's s[0] is s[1] here.                                           *)
(***************************************************************************)
EXTENDS Integers, Sequences, FiniteSets, TLC

VARIABLES pc, call, ret, log, fd, block_buf, blocks, side

vars == <<pc, call, ret, log, fd, block_buf, blocks, side>>

----------------------------------------------------------------------------
(* Bytes and byte sequences.                                               *)

Byte == 0..255

\* b & 0x80 != 0
TopBit(b) == b \div 128 = 1

\* b & 0x7f
ClearTop(b) == b % 128

\* b | 0x80
SetTop(b) == (b % 128) + 128

\* b ^ 0xff
Invert(b) == 255 - b

Zeros(n) == [i \in 1..n |-> 0]

AllZero(s) == \A i \in 1..Len(s) : s[i] = 0

Reverse(s) == [i \in 1..Len(s) |-> s[Len(s) + 1 - i]]

\* The first n bytes of s.
Take(s, n) == SubSeq(s, 1, n)

\* s[k..] of the code: s without its first k bytes.
Drop(s, k) == SubSeq(s, k + 1, Len(s))

----------------------------------------------------------------------------
(* Field type tags, src/src/types.rs 300-314.                              *)

PX_FIELD_TYPE_ALPHA == 1
PX_FIELD_TYPE_DATE == 2
PX_FIELD_TYPE_SHORT_INT == 3
PX_FIELD_TYPE_LONG_INT == 4
PX_FIELD_TYPE_CURRENCY == 5
PX_FIELD_TYPE_NUMBER == 6
PX_FIELD_TYPE_LOGICAL == 9
PX_FIELD_TYPE_MEMO_BLOB == 12
PX_FIELD_TYPE_BIN_BLOB == 13
PX_FIELD_TYPE_DUNNO == 14
PX_FIELD_TYPE_GRAPHIC == 16
PX_FIELD_TYPE_TIME == 20
PX_FIELD_TYPE_TIMESTAMP == 21
PX_FIELD_TYPE_INCREMENTAL == 22
PX_FIELD_TYPE_BCD == 23

FieldTypes ==
    { PX_FIELD_TYPE_ALPHA, PX_FIELD_TYPE_DATE, PX_FIELD_TYPE_SHORT_INT,
      PX_FIELD_TYPE_LONG_INT, PX_FIELD_TYPE_CURRENCY, PX_FIELD_TYPE_NUMBER,
      PX_FIELD_TYPE_LOGICAL, PX_FIELD_TYPE_MEMO_BLOB, PX_FIELD_TYPE_BIN_BLOB,
      PX_FIELD_TYPE_DUNNO, PX_FIELD_TYPE_GRAPHIC, PX_FIELD_TYPE_TIME,
      PX_FIELD_TYPE_TIMESTAMP, PX_FIELD_TYPE_INCREMENTAL, PX_FIELD_TYPE_BCD }

----------------------------------------------------------------------------
(* The value codec, src/src/convert.rs.                                    *)

\* The largest buffer the copy helpers own: buf: [u8; 8].
CopyBufLen == 8

\* copy_from_be(dst, src, len) for a dst of tsize bytes: the first len bytes
\* of src are copied, in order and without reversal, to the front of a zeroed
\* 8-byte buffer and dst is read from the front of that buffer.  Slicing
\* buf[..len] or src[..len] beyond the end panics.
copy_from_be(tsize, src, len) ==
    IF len > CopyBufLen \/ len > Len(src)
    THEN [panic |-> TRUE]
    ELSE [panic |-> FALSE,
          val |-> [i \in 1..tsize |-> IF i <= len THEN src[i] ELSE 0]]

\* copy_from_le(dst, src, len): the same raw copy.
copy_from_le(tsize, src, len) ==
    IF len > CopyBufLen \/ len > Len(src)
    THEN [panic |-> TRUE]
    ELSE [panic |-> FALSE,
          val |-> [i \in 1..tsize |-> IF i <= len THEN src[i] ELSE 0]]

\* fix_sign(dst, len): dst[len - 1] &= 0x7f.
fix_sign(dst, len) ==
    [i \in 1..Len(dst) |-> IF i = len THEN ClearTop(dst[i]) ELSE dst[i]]

\* set_sign(dst, len): dst[len - 1] |= 0x80.
set_sign(dst, len) ==
    [i \in 1..Len(dst) |-> IF i = len THEN SetTop(dst[i]) ELSE dst[i]]

Ok(v) == [ok |-> TRUE, val |-> v]
Err(e) == [ok |-> FALSE, err |-> e]

\* A panic: the call unwinds and returns nothing.
Panic == [ok |-> FALSE, err |-> "panic"]

\* The body shared by the three arms of px_to_long: copy w bytes of s into
\* retval; with the top bit of s[0] set, fix_sign works on the temporary
\* retval.to_le_bytes() and retval keeps its value; otherwise a zero retval
\* is NULL, and set_sign works on a temporary as well.
LongArm(s, w) ==
    LET retval == copy_from_be(8, s, w).val
    IN IF TopBit(s[1])
       THEN LET tmp == fix_sign(retval, w) IN Ok(retval)
       ELSE IF AllZero(retval)
            THEN Err("Value is null")
            ELSE LET tmp == set_sign(retval, w) IN Ok(retval)

\* px_to_long(number, ret, field_type); number is given by its bytes
\* s = number.to_le_bytes().  The result is Ok with *ret, or Err.
px_to_long(s, field_type) ==
    CASE field_type = PX_FIELD_TYPE_LOGICAL -> LongArm(s, 1)
      [] field_type = PX_FIELD_TYPE_SHORT_INT -> LongArm(s, 2)
      [] field_type \in {PX_FIELD_TYPE_LONG_INT, PX_FIELD_TYPE_INCREMENTAL}
            -> LongArm(s, 4)
      [] OTHER -> Err("Unsupported type")

\* px_to_double(number, ret, field_type); the result is the bit pattern of
\* *ret, least significant byte first.  retval == 0.0 is the floating-point
\* comparison: it holds of +0.0 and of -0.0.  d is retval.to_le_bytes() taken
\* while retval is still 0f64, so the negative arm inverts eight zero bytes.
px_to_double(s, field_type) ==
    IF field_type \in {PX_FIELD_TYPE_CURRENCY, PX_FIELD_TYPE_NUMBER}
    THEN LET retval == copy_from_be(8, s, 8).val
             d == Zeros(8)
         IN IF TopBit(s[1])
            THEN LET tmp == fix_sign(retval, 8) IN Ok(retval)
            ELSE IF AllZero(Take(retval, 7)) /\ retval[8] \in {0, 128}
                 THEN Err("Value is null")
                 ELSE Ok([i \in 1..8 |-> Invert(d[i])])
    ELSE Err("Unsupported type")

----------------------------------------------------------------------------
(* 64-bit arithmetic on byte sequences.  A u64 is its 8 bytes, least       *)
(* significant first; an i64 is a sign and the 8 bytes of its magnitude.   *)
(* Division and remainder truncate toward zero, as Rust's / and % do.      *)

\* n in 0..2^31-1 as a u64.
U64(n) ==
    [i \in 1..8 |-> CASE i = 1 -> n % 256
                      [] i = 2 -> (n \div 256) % 256
                      [] i = 3 -> (n \div 65536) % 256
                      [] i = 4 -> (n \div 16777216) % 256
                      [] OTHER -> 0]

\* The value of a u64 below 2^31.
U64ToInt(m) == m[1] + 256 * m[2] + 65536 * m[3] + 16777216 * m[4]

U64Less(a, b) ==
    \E i \in 1..8 : a[i] < b[i] /\ \A j \in (i + 1)..8 : a[j] = b[j]

U64Add(a, b) ==
    LET c[i \in 1..9] == IF i = 1 THEN 0 ELSE (a[i-1] + b[i-1] + c[i-1]) \div 256
    IN [i \in 1..8 |-> (a[i] + b[i] + c[i]) % 256]

\* a - b for a >= b.
U64Sub(a, b) ==
    LET c[i \in 1..9] ==
            IF i = 1 THEN 0 ELSE IF a[i-1] - b[i-1] - c[i-1] < 0 THEN 1 ELSE 0
    IN [i \in 1..8 |-> (a[i] - b[i] - c[i] + 256) % 256]

\* a * k for a small k >= 0.
U64Mul(a, k) ==
    LET c[i \in 1..9] == IF i = 1 THEN 0 ELSE (a[i-1] * k + c[i-1]) \div 256
    IN [i \in 1..8 |-> (a[i] * k + c[i]) % 256]

\* a % d for 0 < d < 2^23: long division from the most significant byte.
U64Rem(a, d) ==
    LET r[i \in 1..9] == IF i = 9 THEN 0 ELSE (r[i+1] * 256 + a[i]) % d
    IN r[1]

\* a / d for 0 < d < 2^23.
U64Div(a, d) ==
    LET r[i \in 1..9] == IF i = 9 THEN 0 ELSE (r[i+1] * 256 + a[i]) % d
    IN [i \in 1..8 |-> (r[i+1] * 256 + a[i]) \div d]

\* a >> 8
U64Shr8(a) == [i \in 1..8 |-> IF i < 8 THEN a[i+1] ELSE 0]

I64(neg, mag) == [neg |-> neg /\ ~AllZero(mag), mag |-> mag]

I64Add(a, b) ==
    IF a.neg = b.neg
    THEN I64(a.neg, U64Add(a.mag, b.mag))
    ELSE IF U64Less(a.mag, b.mag)
         THEN I64(b.neg, U64Sub(b.mag, a.mag))
         ELSE I64(a.neg, U64Sub(a.mag, b.mag))

I64Sub(a, b) == I64Add(a, I64(~b.neg, b.mag))

I64Mul(a, k) == I64(a.neg, U64Mul(a.mag, k))

I64Div(a, d) == I64(a.neg, U64Div(a.mag, d))

\* a % d, a number below d in magnitude, with the sign of a.
I64Rem(a, d) == IF a.neg THEN 0 - U64Rem(a.mag, d) ELSE U64Rem(a.mag, d)

\* The value of an i64 below 2^31 in magnitude.
I64ToInt(a) == IF a.neg THEN 0 - U64ToInt(a.mag) ELSE U64ToInt(a.mag)

\* a / b and a % b of Rust on the checker's integers, b > 0.
TruncDiv(a, b) == IF a >= 0 THEN a \div b ELSE 0 - ((0 - a) \div b)
TruncRem(a, b) == IF a >= 0 THEN a % b ELSE 0 - ((0 - a) % b)

----------------------------------------------------------------------------
(* Dates and times, src/src/convert.rs.                                    *)

\* The body of gdate from jd as i64 on: day number to (year, month, day).
\* Only the first quotient and remainder need 64 bits.
gdate_i64(jd) ==
    LET jd0 == I64Sub(jd, I64(FALSE, U64(1721119)))
        x   == I64Sub(I64Mul(jd0, 4), I64(FALSE, U64(1)))
        j   == I64ToInt(I64Div(x, 146097))
        jd1 == I64Rem(x, 146097)
        t1  == TruncDiv(jd1, 4)
        jd2 == TruncDiv(4 * t1 + 3, 1461)
        t2  == TruncRem(4 * t1 + 3, 1461)
        t3  == TruncDiv(t2 + 4, 4)
        m   == TruncDiv(5 * t3 - 3, 153)
        t4  == TruncRem(5 * t3 - 3, 153)
        t5  == TruncDiv(t4 + 5, 5)
        y   == 100 * j + jd2
    IN IF m < 10 THEN <<y, m + 3, t5>> ELSE <<y + 1, m - 9, t5>>

\* gdate(jd) for a jd: u64 below 2^63, which jd as i64 leaves as it is.
gdate(jd) == gdate_i64(I64(FALSE, jd))

\* The libc::tm the caller hands to px_to_tm: zeroed.
Tm0 == [tm_year |-> 0, tm_mon |-> 0, tm_mday |-> 0,
        tm_hour |-> 0, tm_min |-> 0, tm_sec |-> 0]

\* *libc::gmtime(&t): the C library's conversion, kept as its argument.
gmtime(t) == [gmtime_of |-> t]

\* px_to_tm(number, tm, field_type); the result is Ok with *tm, or Err.
px_to_tm(s, tm, field_type) ==
    CASE field_type = PX_FIELD_TYPE_DATE ->
            LET retval == copy_from_be(8, s, 4).val
            IN IF ~TopBit(s[1]) /\ AllZero(retval)
               THEN Err("Value is null")
               ELSE LET tmp == fix_sign(retval, 4)
                        jd  == U64Sub(U64Add(U64(719528), retval), U64(1))
                        g   == gdate(jd)
                    IN Ok([tm EXCEPT !.tm_year = g[1] - 1900,
                                     !.tm_mon = g[2] - 1,
                                     !.tm_mday = g[3]])
      [] field_type = PX_FIELD_TYPE_TIME ->
            LET retval == copy_from_be(8, s, 4).val
            IN IF TopBit(s[1])
               THEN LET tmp == fix_sign(retval, 4)
                        r1  == U64ToInt(U64Div(retval, 1000))
                        r2  == r1 \div 60
                    IN Ok([tm EXCEPT !.tm_sec = r1 % 60,
                                     !.tm_min = r2 % 60,
                                     !.tm_hour = r2 \div 60])
               ELSE IF AllZero(retval)
                    THEN Err("Value is null")
                    ELSE Ok(tm)
      [] field_type = PX_FIELD_TYPE_TIMESTAMP ->
            LET retval == copy_from_be(8, s, 8).val
            IN IF TopBit(s[1])
               THEN LET tmp == fix_sign(retval, 8)
                        r1  == U64Div(U64Shr8(retval), 500)
                        t   == I64Sub(I64(FALSE, r1),
                                      I64(FALSE, <<63, 127, 194, 84, 51, 34, 0, 0>>))
                    IN Ok(gmtime(t))
               ELSE IF AllZero(retval)
                    THEN Err("Value is null")
                    ELSE Ok(tm)
      [] OTHER -> Err("Unsupported type")

----------------------------------------------------------------------------
(* The table header, src/src/types.rs 42-99: the fields of PxHeader in     *)
(* declaration order, each with the size of its type.                      *)

PrimaryFields ==
    << [name |-> "record_size", width |-> 2],
       [name |-> "header_size", width |-> 2],
       [name |-> "file_type", width |-> 1],
       [name |-> "max_table_size", width |-> 1],
       [name |-> "num_records", width |-> 4],
       [name |-> "used_blocks", width |-> 2],
       [name |-> "file_blocks", width |-> 2],
       [name |-> "first_block", width |-> 2],
       [name |-> "last_block", width |-> 2],
       [name |-> "dummy_1", width |-> 2],
       [name |-> "modified_flags1", width |-> 1],
       [name |-> "index_field_number", width |-> 1],
       [name |-> "primary_index_workspace", width |-> 4],
       [name |-> "dummy_2", width |-> 4],
       [name |-> "index_root_block", width |-> 2],
       [name |-> "index_levels", width |-> 1],
       [name |-> "num_fields", width |-> 2],
       [name |-> "primary_key_fields", width |-> 2],
       [name |-> "encryption1", width |-> 4],
       [name |-> "sort_order", width |-> 1],
       [name |-> "modified_flags2", width |-> 1],
       [name |-> "dummy_5", width |-> 2],
       [name |-> "change_count1", width |-> 1],
       [name |-> "change_count2", width |-> 1],
       [name |-> "dummy_6", width |-> 1],
       [name |-> "table_name_ptr", width |-> 4],
       [name |-> "field_info", width |-> 4],
       [name |-> "write_protected", width |-> 1],
       [name |-> "file_version_id", width |-> 1],
       [name |-> "max_blocks", width |-> 2],
       [name |-> "dummy_7", width |-> 1],
       [name |-> "aux_passwords", width |-> 1],
       [name |-> "dummy_8", width |-> 2],
       [name |-> "crypt_info_start", width |-> 4],
       [name |-> "crypt_info_end", width |-> 4],
       [name |-> "dummy_9", width |-> 1],
       [name |-> "auto_inc", width |-> 4],
       [name |-> "dummy_a", width |-> 2],
       [name |-> "index_update_required", width |-> 1],
       [name |-> "dummy_b", width |-> 4],
       [name |-> "dummy_c", width |-> 1],
       [name |-> "ref_integrity", width |-> 1],
       [name |-> "dummy_d", width |-> 2] >>

ExtensionFields ==
    << [name |-> "file_version_id2", width |-> 2],
       [name |-> "file_version_id3", width |-> 2],
       [name |-> "encryption2", width |-> 4],
       [name |-> "file_update_time", width |-> 4],
       [name |-> "hi_field_id", width |-> 2],
       [name |-> "hi_field_id_info", width |-> 2],
       [name |-> "sometimes_num_fields", width |-> 2],
       [name |-> "dos_global_code_page", width |-> 2],
       [name |-> "dummy_e", width |-> 4],
       [name |-> "change_count4", width |-> 2],
       [name |-> "dummy_f", width |-> 4],
       [name |-> "dummy_10", width |-> 2] >>

HeaderFields == PrimaryFields \o ExtensionFields

RECURSIVE SumWidths(_)
SumWidths(fs) == IF fs = <<>> THEN 0 ELSE Head(fs).width + SumWidths(Tail(fs))

\* size_of::<String>() on a 64-bit target: pointer, capacity, length.
SizeOfString == 24

\* size_of::<PxHeader>(): the integer fields and table_name: String, rounded
\* up to the alignment of the String.
SizeOfPxHeader == ((SumWidths(HeaderFields) + SizeOfString + 7) \div 8) * 8

\* The byte offset of the k-th field of a field list laid out from base.
RECURSIVE OffsetOf(_, _, _)
OffsetOf(fs, k, base) ==
    IF k = 1 THEN base ELSE OffsetOf(Tail(fs), k - 1, base + Head(fs).width)

\* The header a caller hands in before anything is decoded into it: every
\* field zero, the table name empty.
Header0 ==
    [n \in {HeaderFields[k].name : k \in 1..Len(HeaderFields)} |->
        Zeros(HeaderFields[CHOOSE k \in 1..Len(HeaderFields) : HeaderFields[k].name = n].width)]
        @@ [table_name |-> <<>>]

\* A 16-bit field as a signed number.
S16(v) == IF v[2] >= 128 THEN v[1] + 256 * v[2] - 65536 ELSE v[1] + 256 * v[2]

----------------------------------------------------------------------------
(* Files.  A table file is given by its length and the header bytes the    *)
(* decoders branch on; every other byte is a filler that differs from its  *)
(* neighbours, so that a byte read at a wrong offset or in a wrong order   *)
(* shows.                                                                  *)

Filler(off) == (off + 1) % 256

\* The byte of file f at offset off (off < f.len).
FileByte(f, off) ==
    CASE off = 4 -> f.file_type
      [] off = 6 -> f.num_records
      [] off \in 7..9 -> 0
      [] off = 14 -> f.first_block
      [] off = 15 -> 0
      [] off = 33 -> f.num_fields
      [] off = 34 -> 0
      [] off = 57 -> f.file_version
      [] off = f.nul_at -> 0
      [] OTHER -> Filler(off)

\* The n bytes of f from offset off.
FileBytes(f, off, n) == [i \in 1..n |-> FileByte(f, off + i - 1)]

\* fd.read_exact(buf) with buf of n bytes at position pos: the bytes, or
\* UnexpectedEof when fewer than n are left.
read_exact(f, pos, n) ==
    IF pos + n <= f.len
    THEN [ok |-> TRUE, val |-> FileBytes(f, pos, n), pos |-> pos + n]
    ELSE [ok |-> FALSE, err |-> "UnexpectedEof", pos |-> f.len]

----------------------------------------------------------------------------
(* The header decoder of src/src/parse.rs.                                 *)

\* The sizes of the three fixed regions.
PrimarySize == 88
ExtensionSize == 32
TableNameSize == 79

\* One parse_header / parse_header_v4 body: head_copy! of every field of fs
\* in turn, at offset i, each with size_of::<PxHeader>() as the length to
\* copy and the amount to advance by.
RECURSIVE HeadCopy(_, _, _, _)
HeadCopy(fs, unp_head, i, header) ==
    IF fs = <<>>
    THEN [panic |-> FALSE, header |-> header]
    ELSE IF i > Len(unp_head)
         THEN [panic |-> TRUE, header |-> header]
         ELSE LET c == copy_from_le(Head(fs).width, Drop(unp_head, i),
                                    SizeOfPxHeader)
              IN IF c.panic
                 THEN [panic |-> TRUE, header |-> header]
                 ELSE HeadCopy(Tail(fs), unp_head, i + SizeOfPxHeader,
                               [header EXCEPT ![Head(fs).name] = c.val])

parse_header(unp_head, header) == HeadCopy(PrimaryFields, unp_head, 0, header)

parse_header_v4(unp_head, header) == HeadCopy(ExtensionFields, unp_head, 0, header)

\* is_header_supported(header): the verdict and what it prints to stderr.
is_header_supported(header) ==
    IF ~(header.file_version_id[1] \in 3..12)
    THEN [supported |-> FALSE, log |-> <<"Unknown Fileversion ID">>]
    ELSE IF ~(header.file_type[1] \in 0..8)
         THEN [supported |-> FALSE, log |-> <<"Unknown FileType ID">>]
         ELSE IF ~AllZero(header.num_records) /\ header.first_block # <<1, 0>>
              THEN [supported |-> TRUE,
                    log |-> <<"Warning: numRecords > 0 && firstBlock != 1">>]
              ELSE [supported |-> TRUE, log |-> <<>>]

\* header.file_version_id >= 0x05 && header.file_type is none of 1, 4, 7.
HasExtension(header) ==
    /\ header.file_version_id[1] >= 5
    /\ header.file_type[1] \notin {1, 4, 7}

\* The length of the name a PxFieldInfo holds, and of the name the loop
\* gives it: "asdf".to_string().into_bytes().try_into().unwrap() panics
\* unless the two agree.
FieldNameSize == 80
PlaceholderName == <<97, 115, 100, 102>>

\* The loop over 0..header.num_fields from position pos, k fields to go.
RECURSIVE ReadFields(_, _, _, _)
ReadFields(f, pos, k, fields) ==
    IF k <= 0
    THEN [ret |-> Ok(fields), pos |-> pos]
    ELSE LET d == read_exact(f, pos, 2)
         IN IF ~d.ok
            THEN [ret |-> Err(d.err), pos |-> d.pos]
            ELSE IF Len(PlaceholderName) # FieldNameSize
                 THEN [ret |-> Panic, pos |-> d.pos]
                 ELSE ReadFields(f, d.pos, k - 1,
                         Append(fields, [name |-> PlaceholderName,
                                         field_type |-> d.val[1],
                                         size |-> d.val[2]]))

\* What parse_complete_header does after the primary header is parsed.
AfterPrimary(f, h, pos, lg) ==
    LET sup == is_header_supported(h)
    IN IF ~sup.supported
       THEN [ret |-> Err("Unsupported header"), header |-> h, pos |-> pos,
             log |-> lg \o sup.log \o <<"Unsupported header">>]
       ELSE
       LET ext == IF HasExtension(h)
                  THEN read_exact(f, pos, ExtensionSize)
                  ELSE [ok |-> TRUE, val |-> <<>>, pos |-> pos]
           h4  == IF HasExtension(h) /\ ext.ok
                  THEN parse_header_v4(ext.val, h)
                  ELSE [panic |-> FALSE, header |-> h]
           lg2 == lg \o sup.log
       IN IF ~ext.ok
          THEN [ret |-> Err(ext.err), header |-> h, pos |-> ext.pos, log |-> lg2]
          ELSE IF h4.panic
          THEN [ret |-> Panic, header |-> h4.header, pos |-> ext.pos, log |-> lg2]
          ELSE
          LET fl == ReadFields(f, ext.pos, S16(h4.header.num_fields), <<>>)
              tn == read_exact(f, fl.pos, TableNameSize)
          IN IF ~fl.ret.ok
             THEN [ret |-> fl.ret, header |-> h4.header, pos |-> fl.pos,
                   log |-> lg2]
             ELSE IF ~tn.ok
             THEN [ret |-> Err(tn.err), header |-> h4.header, pos |-> tn.pos,
                   log |-> lg2]
             ELSE [ret |-> fl.ret,
                   header |-> [h4.header EXCEPT !.table_name = tn.val],
                   pos |-> tn.pos, log |-> lg2]

\* parse_complete_header(fd, header) on file f read from its start: the
\* result, the caller's header afterwards, the position of fd and stderr.
parse_complete_header(f, header) ==
    LET hd == read_exact(f, 0, PrimarySize)
    IN IF ~hd.ok
       THEN [ret |-> Err(hd.err), header |-> header, pos |-> hd.pos,
             log |-> <<>>]
       ELSE LET ph == parse_header(hd.val, header)
            IN IF ph.panic
               THEN [ret |-> Panic, header |-> ph.header, pos |-> hd.pos,
                     log |-> <<>>]
               ELSE AfterPrimary(f, ph.header, hd.pos, <<>>)

----------------------------------------------------------------------------
(* The header decoder of src/src/types.rs.                                 *)

\* buffer.read_with(&mut offset, BE) of every field of fs in turn: the field
\* is the big-endian number of its bytes.
RECURSIVE ReadFieldsBE(_, _, _, _)
ReadFieldsBE(fs, buffer, offset, header) ==
    IF fs = <<>>
    THEN [header |-> header, offset |-> offset]
    ELSE LET w == Head(fs).width
         IN ReadFieldsBE(Tail(fs), buffer, offset + w,
               [header EXCEPT ![Head(fs).name] =
                    Reverse(SubSeq(buffer, offset + 1, offset + w))])

\* buffer.read_with::<&str>(&mut offset, Str::Delimiter(NULL))
\*     .unwrap_or_default(): the bytes up to the first NUL, or the empty
\* string when there is none or when those bytes are not UTF-8 (of the
\* bytes the files hold, the ones from 128 up are not).
ReadStrNul(buffer, offset) ==
    LET rest == Drop(buffer, offset)
        nuls == {i \in 1..Len(rest) : rest[i] = 0}
        position == CHOOSE i \in nuls : \A j \in nuls : i <= j
    IN IF nuls = {}
       THEN <<>>
       ELSE IF \E i \in 1..(position - 1) : rest[i] >= 128
            THEN <<>>
            ELSE Take(rest, position - 1)

\* PxHeader::from_reader(reader) on file f read from its start.
from_reader(f) ==
    LET rd == read_exact(f, 0, SizeOfPxHeader)
    IN IF ~rd.ok
       THEN [ret |-> Err(rd.err), pos |-> rd.pos]
       ELSE LET r == ReadFieldsBE(HeaderFields, rd.val, 0, Header0)
            IN [ret |-> Ok([r.header EXCEPT
                               !.table_name = ReadStrNul(rd.val, r.offset)]),
                pos |-> rd.pos]

----------------------------------------------------------------------------
(* The block reader, src/src/parse.rs 174-201.  Of a block only its first  *)
(* four bytes are decoded, so a data region is given by its length and the *)
(* first four bytes of each block-sized stretch (heads); of block_buf the  *)
(* model keeps its size and its first four bytes.                          *)

\* 0x400 * header.max_table_size
BlockSize(max_table_size) == 1024 * max_table_size

\* The byte of data region f at offset off, for blocks of B bytes.
DataByte(f, B, off) ==
    IF off % B < 4 THEN f.heads[(off \div B) + 1][(off % B) + 1] ELSE Filler(off)

\* fd.read(&mut block_buf) at position pos: the number of bytes read, which
\* is what is left of the file or the size of the buffer, and the buffer
\* afterwards: only the bytes read are overwritten.
read(f, pos, buf) ==
    LET n == IF f.len - pos < buf.size THEN f.len - pos ELSE buf.size
    IN [n |-> n,
        buf |-> [buf EXCEPT !.head =
                    [i \in 1..4 |-> IF i <= n
                                    THEN DataByte(f, buf.size, pos + i - 1)
                                    ELSE buf.head[i]]]]

\* The body of the while loop: the PxBlocks made from block_buf.
DecodeBlock(buf) ==
    LET next_block == copy_from_le(4, buf.head, 2).val
        prev_block == copy_from_le(4, Drop(buf.head, 2), 2).val
    IN [prev_block |-> U64ToInt(prev_block \o Zeros(4)),
        next_block |-> U64ToInt(next_block \o Zeros(4)),
        num_recs_in_block |-> 0]

----------------------------------------------------------------------------
(* The memo blob resolver, src/src/convert.rs 155-218.                     *)

\* The least inline size that holds a descriptor.
BlobTrailerSize == 10

\* The side file: whether it can be opened, and one block at offset at (a
\* u32) of which avail bytes are in the file; the bytes before it are zero.
SideBlock(sf) ==
    Take(<<sf.type_tag, 1, 0>> \o sf.length \o <<0, 0>> \o sf.payload, sf.avail)

SideLen(sf) == U64ToInt(sf.at) + sf.avail

SideByte(sf, off) ==
    IF off >= U64ToInt(sf.at) THEN SideBlock(sf)[off - U64ToInt(sf.at) + 1] ELSE 0

\* file.read_exact(buf) with buf of n bytes at position pos of the side file.
side_read_exact(sf, pos, n) ==
    IF pos + n <= SideLen(sf)
    THEN [ok |-> TRUE, val |-> [i \in 1..n |-> SideByte(sf, pos + i - 1)]]
    ELSE [ok |-> FALSE, err |-> "UnexpectedEof"]

\* String::from_utf8(string).unwrap_or_default(), for payloads of ASCII
\* bytes and bytes that occur in no UTF-8 text (0x80 and above, alone).
from_utf8_or_default(string) ==
    IF \A i \in 1..Len(string) : string[i] < 128 THEN string ELSE <<>>

None == <<>>
Some(v) == <<v>>

\* copy_from_le(&mut index, &blob[size - 10..], 1)
BlobIndexAtLength(blob, size) == copy_from_le(1, Drop(blob, size - 6), 1).val[1]
BlobIndex(blob, size) == copy_from_le(1, Drop(blob, size - 10), 1).val[1]

\* The index == 0xff arm: the type 02 block.
Type02Block(sf, offset, length) ==
    LET ops1   == << <<"open">>, <<"seek", offset>>, <<"read_exact", 9>> >>
        header == side_read_exact(sf, U64ToInt(offset \o Zeros(4)), 9)
    IN IF ~header.ok
       THEN [ret |-> Err(header.err), side |-> ops1]
       ELSE
       LET type_      == copy_from_le(1, header.val, 1).val[1]
           idx_length == copy_from_le(4, Drop(header.val, 3), 4).val
           n          == U64ToInt(length \o Zeros(4))
           ops2       == Append(ops1, <<"read_exact", n>>)
           string     == side_read_exact(sf, U64ToInt(offset \o Zeros(4)) + 9, n)
       IN IF type_ # 2 \/ idx_length # length
          THEN [ret |-> Err("Type 02 blob length mismatch"), side |-> ops1]
          ELSE IF ~string.ok
               THEN [ret |-> Err(string.err), side |-> ops2]
               ELSE [ret |-> Ok(Some(from_utf8_or_default(string.val))),
                     side |-> ops2]

\* px_memo_to_string(blob, size, blobname) with the side file sf behind
\* blobname: the result and what was done to the side file.  offset is
\* offset0 & 0xffffff00: its least significant byte cleared.
px_memo_to_string(blob, size, blobname, sf) ==
    IF size < BlobTrailerSize
    THEN [ret |-> Ok(None), side |-> <<>>]
    ELSE
    LET offset0 == copy_from_le(4, Drop(blob, size - 10), 4).val
        length  == copy_from_le(4, Drop(blob, size - 6), 4).val
        index   == BlobIndex(blob, size)
        offset  == <<0, offset0[2], offset0[3], offset0[4]>>
    IN IF index = 0
       THEN [ret |-> Ok(None), side |-> <<>>]
       ELSE IF blobname = None
       THEN [ret |-> Ok(None), side |-> <<>>]
       ELSE IF ~sf.exists
       THEN [ret |-> Err("NotFound"), side |-> << <<"open">> >>]
       ELSE IF index = 255
       THEN Type02Block(sf, offset, length)
       ELSE [ret |-> Ok(None), side |-> << <<"open">> >>]

----------------------------------------------------------------------------
(* Inputs of the codec.                                                    *)

\* The bytes a stored field is built from: 0x00 0x05 0x7f 0x80 0xfb 0xff.
ByteVals == {0, 5, 127, 128, 251, 255}

\* The upper four bytes of a 64-bit argument.
HighVals == { <<0, 0, 0, 0>>, <<0, 0, 0, 128>>, <<0, 0, 0, 5>>,
              <<255, 255, 255, 255>> }

Numbers == { lo \o hi : lo \in [1..4 -> ByteVals], hi \in HighVals }

----------------------------------------------------------------------------
(* The state machine: one call of one operation per behaviour.             *)

NoCall == [fn |-> "none"]
NoRet == [ok |-> FALSE, err |-> "none"]

Init ==
    /\ pc = "idle"
    /\ call = NoCall
    /\ ret = NoRet
    /\ log = <<>>
    /\ fd = [len |-> 0, pos |-> 0]
    /\ block_buf = [size |-> 0, head |-> Zeros(4)]
    /\ blocks = <<>>
    /\ side = <<>>

PxToLong ==
    /\ pc = "idle"
    /\ \E s \in Numbers, t \in FieldTypes :
          /\ call' = [fn |-> "px_to_long", number |-> s, field_type |-> t]
          /\ ret' = px_to_long(s, t)
    /\ pc' = "done"
    /\ UNCHANGED <<log, fd, block_buf, blocks, side>>

PxToDouble ==
    /\ pc = "idle"
    /\ \E s \in Numbers, t \in FieldTypes :
          /\ call' = [fn |-> "px_to_double", number |-> s, field_type |-> t]
          /\ ret' = px_to_double(s, t)
    /\ pc' = "done"
    /\ UNCHANGED <<log, fd, block_buf, blocks, side>>

PxToTm ==
    /\ pc = "idle"
    /\ \E s \in Numbers, t \in FieldTypes :
          /\ call' = [fn |-> "px_to_tm", number |-> s, field_type |-> t]
          /\ ret' = px_to_tm(s, Tm0, t)
    /\ pc' = "done"
    /\ UNCHANGED <<log, fd, block_buf, blocks, side>>

NextCodec == PxToLong \/ PxToDouble \/ PxToTm

SpecCodec == Init /\ [][NextCodec]_vars

----------------------------------------------------------------------------
(* Header decoding: the inputs and the two calls.                          *)

\* The most field descriptors a file announces.
MaxFields == 2

Versions == 0..13 \cup {255}
FileTypes == 0..9 \cup {255}
FileLens == {0, 87, 88, 143, 144, 167, 199, 255}
NulOffsets == {122, 300}

Files ==
    [len : FileLens, file_version : Versions, file_type : FileTypes,
     num_records : {0, 1}, first_block : {1, 2},
     num_fields : 0..MaxFields, nul_at : NulOffsets]

ParseCompleteHeader ==
    /\ pc = "idle"
    /\ \E f \in Files :
          LET r == parse_complete_header(f, Header0)
          IN /\ call' = [fn |-> "parse_complete_header", file |-> f]
             /\ ret' = r.ret @@ [header |-> r.header]
             /\ log' = r.log
             /\ fd' = [len |-> f.len, pos |-> r.pos]
    /\ pc' = "done"
    /\ UNCHANGED <<block_buf, blocks, side>>

FromReader ==
    /\ pc = "idle"
    /\ \E f \in Files :
          LET r == from_reader(f)
          IN /\ call' = [fn |-> "from_reader", file |-> f]
             /\ ret' = r.ret
             /\ fd' = [len |-> f.len, pos |-> r.pos]
    /\ pc' = "done"
    /\ UNCHANGED <<log, block_buf, blocks, side>>

NextHeader == ParseCompleteHeader \/ FromReader

SpecHeader == Init /\ [][NextHeader]_vars

----------------------------------------------------------------------------
(* Reading blocks: one action per step of parse_blocks.                    *)

\* The most whole blocks of a data region, and the largest
\* header.max_table_size.
MaxBlocks == 3
MaxTableSize == 2

BlockHeads == { <<2, 0, 0, 0>>, <<0, 1, 3, 0>>, <<7, 7, 9, 9>> }
TailLens == {0, 1, 3, 1023}

\* The data regions for blocks of B bytes: up to MaxBlocks whole blocks and
\* a tail shorter than a block.
DataFiles(B) ==
    IF B = 0
    THEN { [len |-> n, heads |-> <<>>] : n \in {0, 5} }
    ELSE UNION { { [len |-> k * B + tl, heads |-> h] :
                      h \in [1..(k + (IF tl > 0 THEN 1 ELSE 0)) -> BlockHeads] } :
                 k \in 0..MaxBlocks, tl \in TailLens }

\* The call: blocks is empty, block_buf is zeroed.
ParseBlocksCall ==
    /\ pc = "idle"
    /\ \E mts \in 0..MaxTableSize :
          \E f \in DataFiles(BlockSize(mts)) :
             /\ call' = [fn |-> "parse_blocks", file |-> f, max_table_size |-> mts]
             /\ fd' = [len |-> f.len, pos |-> 0]
             /\ block_buf' = [size |-> BlockSize(mts), head |-> Zeros(4)]
    /\ blocks' = <<>>
    /\ pc' = "blocks"
    /\ UNCHANGED <<ret, log, side>>

\* One turn of the loop: fd.read returned more than 0.
ParseBlocksRead ==
    /\ pc = "blocks"
    /\ LET r == read(call.file, fd.pos, block_buf)
       IN /\ r.n > 0
          /\ block_buf' = r.buf
          /\ fd' = [fd EXCEPT !.pos = fd.pos + r.n]
          /\ blocks' = Append(blocks, DecodeBlock(r.buf))
    /\ UNCHANGED <<pc, call, ret, log, side>>

\* fd.read returned 0: Ok(blocks).
ParseBlocksReturn ==
    /\ pc = "blocks"
    /\ read(call.file, fd.pos, block_buf).n = 0
    /\ ret' = Ok(blocks)
    /\ pc' = "done"
    /\ UNCHANGED <<call, log, fd, block_buf, blocks, side>>

NextBlocks == ParseBlocksCall \/ ParseBlocksRead \/ ParseBlocksReturn

SpecBlocks == Init /\ [][NextBlocks]_vars

----------------------------------------------------------------------------
(* Resolving a memo blob.                                                  *)

\* The longest payload of the side file's block, and the most bytes of a
\* field before its descriptor.
MaxPayload == 2
MaxPrefix == 1

RECURSIVE SeqsUpTo(_, _)
SeqsUpTo(S, n) ==
    IF n = 0 THEN {<<>>}
    ELSE SeqsUpTo(S, n - 1) \cup [1..n -> S]

U32Lengths == { <<0, 0, 0, 0>>, <<2, 0, 0, 0>>, <<2, 1, 0, 0>> }

\* Inline bytes: fields too short for a descriptor, and fields that end in
\* one: sub-index (the low byte of the offset), the rest of the offset, the
\* length, the modification number.
Blobs ==
    { [i \in 1..n |-> b] : n \in 0..(BlobTrailerSize - 1), b \in {0, 255} }
    \cup { Zeros(p) \o <<ix>> \o off \o ln \o <<1, 0>> :
              p \in 0..MaxPrefix, ix \in {0, 1, 255},
              off \in { <<1, 0, 0>>, <<0, 0, 0>> }, ln \in U32Lengths }

SideFiles ==
    { sf \in [exists : BOOLEAN, at : { <<0, 1, 0, 0>> }, type_tag : {2, 3},
              length : U32Lengths, payload : SeqsUpTo({65, 255}, MaxPayload),
              avail : 0..(9 + MaxPayload)] :
         sf.avail \in {0, 8, 9 + Len(sf.payload)} }

PxMemoToString ==
    /\ pc = "idle"
    /\ \E blob \in Blobs, blobname \in {None, Some("t.mb")}, sf \in SideFiles :
          LET r == px_memo_to_string(blob, Len(blob), blobname, sf)
          IN /\ call' = [fn |-> "px_memo_to_string", blob |-> blob,
                         size |-> Len(blob), blobname |-> blobname,
                         side_file |-> sf]
             /\ ret' = r.ret
             /\ side' = r.side
    /\ pc' = "done"
    /\ UNCHANGED <<log, fd, block_buf, blocks>>

NextBlob == PxMemoToString

SpecBlob == Init /\ [][NextBlob]_vars

----------------------------------------------------------------------------
(* Properties of the value codec.                                          *)

\* The stored field of a call: the first w bytes of the argument, in file
\* order.  The code tests s[0] & 0x80 for the bias bit, so s[0] is the
\* most-significant stored byte.
StoredField(s, w) == Take(s, w)

\* Storage width of a scalar field type (0: not a scalar).
Width(t) ==
    CASE t = PX_FIELD_TYPE_LOGICAL -> 1
      [] t = PX_FIELD_TYPE_SHORT_INT -> 2
      [] t \in {PX_FIELD_TYPE_LONG_INT, PX_FIELD_TYPE_INCREMENTAL,
                PX_FIELD_TYPE_DATE, PX_FIELD_TYPE_TIME} -> 4
      [] t \in {PX_FIELD_TYPE_CURRENCY, PX_FIELD_TYPE_NUMBER,
                PX_FIELD_TYPE_TIMESTAMP} -> 8
      [] OTHER -> 0

\* The function that decodes a scalar field type.
Decoder(t) ==
    CASE t \in {PX_FIELD_TYPE_LOGICAL, PX_FIELD_TYPE_SHORT_INT,
                PX_FIELD_TYPE_LONG_INT, PX_FIELD_TYPE_INCREMENTAL} -> "px_to_long"
      [] t \in {PX_FIELD_TYPE_CURRENCY, PX_FIELD_TYPE_NUMBER} -> "px_to_double"
      [] t \in {PX_FIELD_TYPE_DATE, PX_FIELD_TYPE_TIME,
                PX_FIELD_TYPE_TIMESTAMP} -> "px_to_tm"
      [] OTHER -> "none"

IntTypes == {PX_FIELD_TYPE_SHORT_INT, PX_FIELD_TYPE_LONG_INT,
             PX_FIELD_TYPE_INCREMENTAL}

IsNull(r) == ~r.ok /\ r.err = "Value is null"

\* The w-byte integer the sign-biased rule assigns to the stored field f,
\* least significant byte first: the big-endian pattern with its top bit
\* cleared (bit 1: a non-negative value) or set (bit 0: the two's-complement
\* pattern of a negative value).
BiasDecoded(f) ==
    Reverse(<<IF TopBit(f[1]) THEN ClearTop(f[1]) ELSE SetTop(f[1])>> \o Tail(f))

\* C1: a finished px_to_long call on a ShortInt, LongInt or Incremental
\* field that is not all zero returns the big-endian pattern with the bias
\* bit cleared, as a non-negative integer, when the bit is 1, and the pattern
\* with the bit set, as a two's-complement integer of the field's width, when
\* the bit is 0; 80 00 00 05 gives 5 and 7f ff ff fb gives -5.
C1_BiasedIntegerDecode ==
    (pc = "done" /\ call.fn = "px_to_long" /\ call.field_type \in IntTypes) =>
        LET w == Width(call.field_type)
            f == StoredField(call.number, w)
        IN ~AllZero(f) =>
              /\ ret.ok
              /\ Take(ret.val, w) = BiasDecoded(f)
              /\ TopBit(f[1]) => AllZero(Drop(ret.val, w))

\* The case of C1: a LongInt call on the stored bytes 80 00 00 05.
C1_CaseFive ==
    /\ pc = "done" /\ call.fn = "px_to_long"
    /\ call.field_type = PX_FIELD_TYPE_LONG_INT
    /\ StoredField(call.number, 4) = <<128, 0, 0, 5>>

\* C2: for every scalar field type, the decoder's result is NULL exactly
\* when the w stored bytes are all zero.
C2_NullIffAllZero ==
    (pc = "done" /\ Width(call.field_type) > 0
                 /\ call.fn = Decoder(call.field_type)) =>
        (IsNull(ret) <=> AllZero(StoredField(call.number, Width(call.field_type))))

\* The case of C2: a Number call whose stored bytes are not all zero.
C2_CaseNonZeroNumber ==
    /\ pc = "done" /\ call.fn = "px_to_double"
    /\ call.field_type = PX_FIELD_TYPE_NUMBER
    /\ ~AllZero(StoredField(call.number, 8))

\* Unsigned comparison of two stored fields, most significant byte first.
RawLess(a, b) ==
    \E i \in 1..Len(a) : a[i] < b[i] /\ \A j \in 1..(i - 1) : a[j] = b[j]

\* x < y for two's-complement integers of w bytes, least significant first.
IntLess(x, y, w) ==
    IF TopBit(x[w]) # TopBit(y[w])
    THEN TopBit(x[w])
    ELSE \E i \in 1..w : x[i] < y[i] /\ \A j \in (i + 1)..w : x[j] = y[j]

\* C3: the stored field a of a finished integer px_to_long call and any
\* other non-NULL stored field b of the same width compare, as raw bytes most
\* significant first, the way their decoded values compare.
C3_OrderPreserved ==
    (pc = "done" /\ call.fn = "px_to_long" /\ call.field_type \in IntTypes
                 /\ ret.ok) =>
        LET w == Width(call.field_type)
            a == StoredField(call.number, w)
        IN \A b \in [1..w -> ByteVals] :
              LET rb == px_to_long(b \o Zeros(8 - w), call.field_type)
              IN rb.ok =>
                    (RawLess(a, b) <=> IntLess(Take(ret.val, w), Take(rb.val, w), w))

----------------------------------------------------------------------------
(* Properties of header decoding.                                          *)

HeaderCalls == {"parse_complete_header", "from_reader"}

SupportedVersion(f) == f.file_version \in 3..12
SupportedType(f) == f.file_type \in 0..8

\* The extension condition on the file's own bytes.
ExtensionDue(f) == f.file_version >= 5 /\ f.file_type \notin {1, 4, 7}

\* The bytes of the fixed regions of f: primary header, extension when due,
\* descriptors, table name.
FixedRegions(f) ==
    PrimarySize + (IF ExtensionDue(f) THEN ExtensionSize ELSE 0)
        + 2 * f.num_fields + TableNameSize

\* The header a finished call leaves: the value from_reader returns, the
\* caller's struct after parse_complete_header.
DecodedHeader == IF call.fn = "from_reader" THEN ret.val ELSE ret.header

\* The errors of the design that an error of the code can stand for.
ErrorNames(e) ==
    CASE e = "Unsupported header" -> {"UnsupportedVersion", "UnsupportedFileType"}
      [] e = "UnexpectedEof" -> {"Truncated"}
      [] OTHER -> {}

\* C4: a header decode of a source that holds the primary region is
\* rejected with the error UnsupportedVersion when file_version is outside
\* 0x03..0x0c and with the error UnsupportedFileType when the version is
\* supported and file_type is outside 0x00..0x08; the error tells the two
\* apart, no header is returned and nothing beyond the 0x58 bytes is read.
C4_RejectsUnsupported ==
    (pc = "done" /\ call.fn \in HeaderCalls /\ call.file.len >= SizeOfPxHeader) =>
        /\ ~SupportedVersion(call.file) =>
              /\ ~ret.ok
              /\ ErrorNames(ret.err) = {"UnsupportedVersion"}
              /\ fd.pos = PrimarySize
        /\ (SupportedVersion(call.file) /\ ~SupportedType(call.file)) =>
              /\ ~ret.ok
              /\ ErrorNames(ret.err) = {"UnsupportedFileType"}
              /\ fd.pos = PrimarySize

\* The case of C4: a decode of a complete source with file_version 0x00.
C4_CaseVersionZero ==
    /\ pc = "done" /\ call.fn \in HeaderCalls
    /\ call.file.len >= FixedRegions(call.file)
    /\ call.file.file_version = 0

\* C5: parse_complete_header succeeds for every supported file_version and
\* file_type when the source holds all the fixed regions, whatever
\* num_records and first_block are.
C5_SupportedDecodes ==
    (pc = "done" /\ call.fn = "parse_complete_header"
                 /\ SupportedVersion(call.file) /\ SupportedType(call.file)
                 /\ call.file.len >= FixedRegions(call.file)) =>
        ret.ok

\* The case of C5: a supported, complete source with num_records > 0 and
\* first_block # 1.
C5_CaseWarning ==
    /\ pc = "done" /\ call.fn = "parse_complete_header"
    /\ SupportedVersion(call.file) /\ SupportedType(call.file)
    /\ call.file.len >= FixedRegions(call.file)
    /\ call.file.num_records > 0 /\ call.file.first_block # 1

\* C6: once a header decode has the bytes it asks for, every primary field
\* holds the little-endian number of exactly its own width at the offset
\* that is the sum of the widths before it, the widths sum to 0x58, and
\* nothing outside the 0x58-byte region has been read for them.
C6_PrimaryLayout ==
    (pc = "done" /\ call.fn \in HeaderCalls /\ call.file.len >= SizeOfPxHeader) =>
        /\ \A k \in 1..Len(PrimaryFields) :
              DecodedHeader[PrimaryFields[k].name] =
                  FileBytes(call.file, OffsetOf(PrimaryFields, k, 0),
                            PrimaryFields[k].width)
        /\ SumWidths(PrimaryFields) = PrimarySize
        /\ OffsetOf(PrimaryFields, 5, 0) = 6
        /\ OffsetOf(PrimaryFields, 17, 0) = 33
        /\ OffsetOf(PrimaryFields, 29, 0) = 57

\* The case of C6: a decode that had all the bytes it asked for.
C6_CaseDecoded ==
    /\ pc = "done" /\ call.fn \in HeaderCalls
    /\ call.file.len >= SizeOfPxHeader

\* C7: a successful header decode has consumed the primary header, the
\* extension exactly when file_version >= 0x05 and file_type is none of
\* 0x01, 0x04, 0x07, the descriptors and the table name, in this order:
\* 0x58 + (0x20 or 0) + 2 * num_fields + 79 bytes.
C7_RegionsConsumed ==
    (pc = "done" /\ call.fn \in HeaderCalls /\ ret.ok) =>
        fd.pos = FixedRegions(call.file)

\* The case of C7: a successful decode of a file without extension.
C7_CaseNoExtension ==
    /\ pc = "done" /\ call.fn \in HeaderCalls /\ ret.ok
    /\ ~ExtensionDue(call.file)

----------------------------------------------------------------------------
(* Properties of the block reader.                                         *)

\* What the k-th block of B bytes of data region f decodes to.
OwnBlock(f, B, k) ==
    LET b == [i \in 1..4 |-> DataByte(f, B, (k - 1) * B + i - 1)]
    IN [prev_block |-> b[3] + 256 * b[4],
        next_block |-> b[1] + 256 * b[2],
        num_recs_in_block |-> 0]

\* C8: with a block size B > 0, parse_blocks over L bytes returns exactly
\* L div B blocks, the k-th decoded from the k-th B bytes; a tail that does
\* not fill a block yields none.
C8_WholeBlocksOnly ==
    (pc = "done" /\ call.fn = "parse_blocks" /\ block_buf.size > 0) =>
        /\ ret.ok
        /\ Len(ret.val) = call.file.len \div block_buf.size
        /\ \A k \in 1..Len(ret.val) :
              ret.val[k] = OwnBlock(call.file, block_buf.size, k)

\* The case of C8: a finished walk over three whole blocks and a tail.
C8_CaseTail ==
    /\ pc = "done" /\ call.fn = "parse_blocks" /\ block_buf.size > 0
    /\ call.file.len \div block_buf.size = 3
    /\ call.file.len % block_buf.size > 0

\* The whole-block part of C8: a region of exactly k blocks yields k blocks.
C8_ExactMultiple ==
    (pc = "done" /\ call.fn = "parse_blocks" /\ block_buf.size > 0
                 /\ call.file.len % block_buf.size = 0) =>
        /\ Len(ret.val) = call.file.len \div block_buf.size
        /\ \A k \in 1..Len(ret.val) :
              ret.val[k] = OwnBlock(call.file, block_buf.size, k)

----------------------------------------------------------------------------
(* Properties of the blob resolver.                                        *)

\* The sub-index byte of a field that holds a descriptor.
SubIndex(blob) == blob[Len(blob) - 9]

\* C9: px_memo_to_string returns NULL and does nothing to the side file,
\* not even open it, when the inline length is below 10 and when it is at
\* least 10 and the sub-index byte, at position len - 10, is 0.
C9_NullWithoutSideFile ==
    (pc = "done" /\ call.fn = "px_memo_to_string"
        /\ (call.size < 10 \/ SubIndex(call.blob) = 0)) =>
        /\ ret = Ok(None)
        /\ side = <<>>

\* The cases of C9: a 9-byte field, and a descriptor with sub-index 0 and
\* a non-zero length, each with a side file that could have been opened.
C9_CaseShortAndNull ==
    /\ pc = "done" /\ call.fn = "px_memo_to_string"
    /\ call.blobname # None /\ call.side_file.exists
    /\ call.side_file.avail > 0
    /\ \/ call.size = 9
       \/ /\ call.size >= 10 /\ SubIndex(call.blob) = 0
          /\ call.blob[call.size - 5] # 0
    /\ ret = Ok(None)

\* The errors of the design that an error of the resolver can stand for;
\* the code's one mismatch error is named after the length.
BlobErrorNames(e) ==
    CASE e = "Type 02 blob length mismatch" -> {"BlobLengthMismatch"}
      [] e = "UnexpectedEof" -> {"Truncated"}
      [] OTHER -> {}

\* C10: with sub-index 0xff, once the 9-byte block header has been read at
\* the descriptor's offset with its low byte masked, the result is the error
\* BlobTypeMismatch for a type tag other than 2, the error BlobLengthMismatch
\* for type tag 2 and a payload length other than the descriptor's, with no
\* bytes returned, and otherwise the payload_length bytes after the header.
C10_Type02Block ==
    (pc = "done" /\ call.fn = "px_memo_to_string" /\ call.size >= 10
        /\ SubIndex(call.blob) = 255
        /\ Len(side) >= 3) =>
        LET offset == <<0>> \o SubSeq(call.blob, call.size - 8, call.size - 6)
            length == SubSeq(call.blob, call.size - 5, call.size - 2)
            header == side_read_exact(call.side_file, U64ToInt(offset \o Zeros(4)), 9)
            body   == side_read_exact(call.side_file,
                         U64ToInt(offset \o Zeros(4)) + 9,
                         U64ToInt(length \o Zeros(4)))
        IN /\ side[2] = <<"seek", offset>>
           /\ header.ok =>
                 /\ header.val[1] # 2 =>
                       ~ret.ok /\ BlobErrorNames(ret.err) = {"BlobTypeMismatch"}
                 /\ (header.val[1] = 2 /\ SubSeq(header.val, 4, 7) # length) =>
                       ~ret.ok /\ BlobErrorNames(ret.err) = {"BlobLengthMismatch"}
                 /\ (header.val[1] = 2 /\ SubSeq(header.val, 4, 7) = length
                        /\ body.ok) =>
                       ret = Ok(Some(body.val))

\* The case of C10: a block header read with type tag 3.
C10_CaseTypeTag ==
    /\ pc = "done" /\ call.fn = "px_memo_to_string" /\ call.size >= 10
    /\ SubIndex(call.blob) = 255
    /\ Len(side) >= 3
    /\ call.side_file.avail >= 9 /\ call.side_file.type_tag = 3
    /\ call.blob[call.size - 8] = 1

\* The outcome of the design that a result of the resolver stands for; its
\* result type, io::Result<Option<String>>, has no fourth value.
BlobOutcome(r) ==
    IF ~r.ok THEN "Error"
    ELSE IF r.val = None THEN "NULL" ELSE "Payload"

\* C11: with an inline length of at least 10 and a sub-index that is
\* neither 0 nor 0xff, px_memo_to_string returns the outcome Unresolved,
\* which is neither NULL nor an error; it never returns NULL.
C11_OtherIndexUnresolved ==
    (pc = "done" /\ call.fn = "px_memo_to_string" /\ call.size >= 10
        /\ SubIndex(call.blob) \notin {0, 255}) =>
        /\ BlobOutcome(ret) = "Unresolved"
        /\ ret # Ok(None)

\* The case of C11: a descriptor with sub-index 1 and a side file that can
\* be opened.
C11_CaseIndexOne ==
    /\ pc = "done" /\ call.fn = "px_memo_to_string" /\ call.size >= 10
    /\ SubIndex(call.blob) = 1
    /\ call.blobname # None /\ call.side_file.exists
    /\ side = << <<"open">> >>

----------------------------------------------------------------------------
(* Properties of the field descriptors.                                    *)

\* Where the descriptors of f start: after the primary header and the
\* extension when it is due.
DescriptorsAt(f) ==
    PrimarySize + (IF ExtensionDue(f) THEN ExtensionSize ELSE 0)

\* C12: parse_complete_header on a supported source that holds all the
\* fixed regions returns exactly num_fields descriptors, the i-th with the
\* type tag and the size of the i-th 2-byte pair after the header, and a
\* type tag outside the known set neither fails the decode nor drops the
\* entry.
C12_DescriptorsInOrder ==
    (pc = "done" /\ call.fn = "parse_complete_header"
                 /\ SupportedVersion(call.file) /\ SupportedType(call.file)
                 /\ call.file.len >= FixedRegions(call.file)) =>
        /\ ret.ok
        /\ Len(ret.val) = call.file.num_fields
        /\ \A i \in 1..call.file.num_fields :
              /\ ret.val[i].field_type =
                    FileByte(call.file, DescriptorsAt(call.file) + 2 * (i - 1))
              /\ ret.val[i].size =
                    FileByte(call.file, DescriptorsAt(call.file) + 2 * (i - 1) + 1)

\* The case of C12: a supported, complete source with two descriptors whose
\* type tags are outside the known set.
C12_CaseUnknownTag ==
    /\ pc = "done" /\ call.fn = "parse_complete_header"
    /\ SupportedVersion(call.file) /\ SupportedType(call.file)
    /\ call.file.len >= FixedRegions(call.file)
    /\ call.file.num_fields = 2
    /\ \A i \in 1..2 :
          FileByte(call.file, DescriptorsAt(call.file) + 2 * (i - 1)) \notin FieldTypes

----------------------------------------------------------------------------
(* Properties of dates, times and floating values.                         *)

\* The day count the sign-biased rule assigns to a stored 4-byte field f,
\* as an i64: the big-endian magnitude with the bias bit cleared when the
\* bit is 1, the negative two's-complement number of the pattern with the
\* bit set when it is 0.
DayCount(f) ==
    LET v == BiasDecoded(f) \o Zeros(4)
    IN IF TopBit(f[1])
       THEN I64(FALSE, v)
       ELSE I64(TRUE, U64Sub(<<0, 0, 0, 0, 1, 0, 0, 0>>, v))

\* The calendar triple a finished px_to_tm call left in tm.
TmDate(tm) == <<tm.tm_year + 1900, tm.tm_mon + 1, tm.tm_mday>>

\* C13: a finished Date call on a stored field that is not all zero leaves
\* in tm the triple that gdate gives for d + 719528, d the decoded day
\* count, with no further adjustment.
C13_DateOffset ==
    (pc = "done" /\ call.fn = "px_to_tm"
                 /\ call.field_type = PX_FIELD_TYPE_DATE
                 /\ ~AllZero(StoredField(call.number, 4))) =>
        /\ ret.ok
        /\ TmDate(ret.val) =
              gdate_i64(I64Add(DayCount(StoredField(call.number, 4)),
                               I64(FALSE, U64(719528))))

\* The case of C13: a Date call on the stored bytes 80 00 00 05, the day
\* count 5.
C13_CaseDayFive ==
    /\ pc = "done" /\ call.fn = "px_to_tm"
    /\ call.field_type = PX_FIELD_TYPE_DATE
    /\ StoredField(call.number, 4) = <<128, 0, 0, 5>>
    /\ ret.ok

----------------------------------------------------------------------------
\* The binary64 bit pattern, least significant byte first, that the rule
\* for floating types assigns to the 8 stored bytes f: the big-endian
\* pattern with the bias bit cleared when the bit is 1, and with every byte
\* inverted when it is 0.
DoubleDecoded(f) ==
    IF TopBit(f[1])
    THEN Reverse(<<ClearTop(f[1])>> \o Tail(f))
    ELSE Reverse([i \in 1..8 |-> Invert(f[i])])

\* The stored patterns that differ from f in one byte.
OneByteOff(f) ==
    { [i \in 1..8 |-> IF i = k THEN v ELSE f[i]] : k \in 1..8, v \in ByteVals }
        \ {f}

\* C14: a finished Currency or Number call on 8 stored bytes that are not
\* all zero returns the stored pattern with the top bit cleared when that
\* bit is 1, the bitwise NOT of every stored byte when it is 0, and no
\* other stored pattern decodes to the same result pattern.
C14_DoubleBitPattern ==
    (pc = "done" /\ call.fn = "px_to_double"
                 /\ call.field_type \in {PX_FIELD_TYPE_CURRENCY, PX_FIELD_TYPE_NUMBER}
                 /\ ~AllZero(call.number)) =>
        /\ ret.ok
        /\ ret.val = DoubleDecoded(call.number)
        /\ \A g \in OneByteOff(call.number) :
              px_to_double(g, call.field_type) # ret

\* The case of C14: a Number call that took the negative branch, top bit
\* 0 and a non-zero byte, and returned a value.
C14_CaseNegative ==
    /\ pc = "done" /\ call.fn = "px_to_double"
    /\ call.field_type = PX_FIELD_TYPE_NUMBER
    /\ ~TopBit(call.number[1]) /\ call.number[2] = 5
    /\ ret.ok

\* C14 without its first two parts: the code's decode of the one-byte
\* neighbours of a stored pattern with top bit 1 differs from its own.
C14_PositiveInjective ==
    (pc = "done" /\ call.fn = "px_to_double" /\ ret.ok
                 /\ TopBit(call.number[1])) =>
        \A g \in OneByteOff(call.number) :
           TopBit(g[1]) => px_to_double(g, call.field_type) # ret

----------------------------------------------------------------------------
\* The magnitude of a stored 4-byte field f below 2^31: the big-endian
\* number of its bytes with the bias bit not counted.
Magnitude(f) ==
    16777216 * ClearTop(f[1]) + 65536 * f[2] + 256 * f[3] + f[4]

\* C15: a finished Time call on a stored field that is not all zero,
\* whichever way its top bit is set, returns a time of day: for the
\* magnitude m in milliseconds, seconds (m div 1000) mod 60, minutes
\* (m div 60000) mod 60 and hours m div 3600000.
C15_TimeOfDay ==
    (pc = "done" /\ call.fn = "px_to_tm"
                 /\ call.field_type = PX_FIELD_TYPE_TIME
                 /\ ~AllZero(StoredField(call.number, 4))) =>
        LET m == Magnitude(StoredField(call.number, 4))
        IN /\ ret.ok
           /\ ret.val.tm_sec = (m \div 1000) % 60
           /\ ret.val.tm_min = (m \div 60000) % 60
           /\ ret.val.tm_hour = m \div 3600000

\* The case of C15: a Time call on a stored field with top bit 0 and a
\* magnitude of more than a second.
C15_CaseBitClear ==
    /\ pc = "done" /\ call.fn = "px_to_tm"
    /\ call.field_type = PX_FIELD_TYPE_TIME
    /\ ~TopBit(call.number[1])
    /\ Magnitude(StoredField(call.number, 4)) > 1000
    /\ ret.ok

\* What the code's Time arm does with the bias bit set: the same chain on
\* the stored bytes read least significant first, bias bit included.
C15_RawChain ==
    (pc = "done" /\ call.fn = "px_to_tm"
                 /\ call.field_type = PX_FIELD_TYPE_TIME
                 /\ TopBit(call.number[1])) =>
        LET r == U64Div(StoredField(call.number, 4) \o Zeros(4), 1000)
        IN /\ ret.ok
           /\ ret.val.tm_sec = U64Rem(r, 60)
           /\ ret.val.tm_min = U64Rem(U64Div(r, 60), 60)
           /\ ret.val.tm_hour = U64ToInt(U64Div(U64Div(r, 60), 60))

----------------------------------------------------------------------------
\* Leap years and month lengths of the proleptic Gregorian calendar.
IsLeap(y) == y % 4 = 0 /\ (y % 100 # 0 \/ y % 400 = 0)

DaysIn(y, m) ==
    CASE m \in {4, 6, 9, 11} -> 30
      [] m = 2 -> IF IsLeap(y) THEN 29 ELSE 28
      [] OTHER -> 31

ValidDate(g) == g[2] \in 1..12 /\ g[3] \in 1..DaysIn(g[1], g[2])

\* The calendar date after g.
NextDate(g) ==
    IF g[3] < DaysIn(g[1], g[2]) THEN <<g[1], g[2], g[3] + 1>>
    ELSE IF g[2] < 12 THEN <<g[1], g[2] + 1, 1>>
    ELSE <<g[1] + 1, 1, 1>>

\* The day number a Date call passes to gdate for the stored magnitude
\* retval: 719528 + retval - 1.
PassedOn(f) == U64Sub(U64Add(U64(719528), f \o Zeros(4)), U64(1))

\* C16: for the day number a finished Date call has passed on, gdate
\* returns a valid calendar triple, month in 1..12 and day in 1..31, it is
\* the triple left in tm, and the next day number gives the next calendar
\* date.
C16_GdateValid ==
    (pc = "done" /\ call.fn = "px_to_tm"
                 /\ call.field_type = PX_FIELD_TYPE_DATE /\ ret.ok) =>
        LET jd == PassedOn(StoredField(call.number, 4))
        IN /\ TmDate(ret.val) = gdate(jd)
           /\ ValidDate(gdate(jd))
           /\ gdate(U64Add(jd, U64(1))) = NextDate(gdate(jd))

\* The case of C16: a Date call that passed a day number on, for a stored
\* magnitude of 5.
C16_CaseSmallCount ==
    /\ pc = "done" /\ call.fn = "px_to_tm"
    /\ call.field_type = PX_FIELD_TYPE_DATE /\ ret.ok
    /\ StoredField(call.number, 4) = <<5, 0, 0, 0>>

\* C16 from 1721120 on, the day number of 1 March of the year 0: there
\* gdate returns valid triples and consecutive day numbers give consecutive
\* dates.
C16_ValidFromMarchZero ==
    (pc = "done" /\ call.fn = "px_to_tm"
                 /\ call.field_type = PX_FIELD_TYPE_DATE /\ ret.ok
                 /\ U64Less(U64(1721119), PassedOn(StoredField(call.number, 4)))) =>
        LET jd == PassedOn(StoredField(call.number, 4))
        IN /\ TmDate(ret.val) = gdate(jd)
           /\ ValidDate(gdate(jd))
           /\ gdate(U64Add(jd, U64(1))) = NextDate(gdate(jd))

\* A Date call that passed on a day number from 1721120 on.
C16_CaseLargeCount ==
    /\ pc = "done" /\ call.fn = "px_to_tm"
    /\ call.field_type = PX_FIELD_TYPE_DATE /\ ret.ok
    /\ StoredField(call.number, 4) = <<128, 0, 0, 5>>

----------------------------------------------------------------------------
Next == NextCodec \/ NextHeader \/ NextBlocks \/ NextBlob

Spec == Init /\ [][Next]_vars
====
